---- MODULE Spec2Model ----
(***************************************************************************)
(* Model of Analysis.py: the Analysis configuration object (get_value),    *)
(* load_data, compute_analysis, plot_data, notify_done and the __main__    *)
(* script that chains them.                                                *)
(*                                                                         *)
(* Three entry points are modelled, each with its own specification:       *)
(*   Spec       - one run of the script (python Analysis.py)               *)
(*   SpecConfig - get_value(key) on an Analysis object, any configuration  *)
(*   SpecPlot   - plot_data(pokemon_types, counts, plot_color) called      *)
(*                directly with arbitrary lists                            *)
(* FairSpec is Spec with the interpreter always taking its next step.      *)
(***************************************************************************)
EXTENDS Naturals, Sequences, FiniteSets

VARIABLES
    analysis_obj,       \* Analysis.analysis_obj: the three configs, in insertion order
    lookup_key,         \* argument of the last direct get_value call
    lookup_result,      \* what that call returned
    pc,                 \* position of the script
    remote,             \* whether the endpoint of the pending request ever answers
    response,           \* what requests.get did inside load_data
    push,               \* what requests.post did inside notify_done
    data,               \* value returned by load_data
    type_count,         \* compute_analysis: type_count
    type_distribution,  \* compute_analysis: type_distribution, in insertion order
    most_common_types,  \* compute_analysis: most_common_types
    notify_log,         \* what notify_done printed
    plot_types,         \* plot_data argument pokemon_types
    plot_counts,        \* plot_data argument counts
    plot_result,        \* effects of plot_data
    stages              \* the stages completed so far, in order

vars == <<analysis_obj, lookup_key, lookup_result, pc, remote, response, push, data, type_count,
          type_distribution, most_common_types, notify_log, plot_types,
          plot_counts, plot_result, stages>>

cfgVars == <<analysis_obj, lookup_key, lookup_result>>
netVars == <<remote, response, push>>
aggVars == <<type_count, type_distribution, most_common_types>>
plotVars == <<plot_types, plot_counts, plot_result>>

(***************************************************************************)
(* Bounds and input domains                                                *)
(***************************************************************************)
MaxLen == 3

\* Record names; "fire" and "Fire" differ only in case.
Names == {"fire", "Fire", "water"}

Keys == {"base_url", "plot_color"}

\* Values a YAML source can give a key. "None" is YAML null, which
\* yaml.safe_load turns into Python's None; "0" is a falsy scalar.
Values == {"None", "0", "a", "b"}

\* Python's None, as get_value and load_data return it.
None == "None"

SeqsUpTo(S, n) == UNION {[1..k -> S] : k \in 0..n}

(***************************************************************************)
(* Analysis: the configuration object                                      *)
(***************************************************************************)
\* A configuration file is a YAML mapping from some of the keys to values.
Configs == UNION {[D -> Values] : D \in SUBSET Keys}

\* analysis_obj = {"system_config": .., "user_config": .., "job_config": ..}:
\* a dict, iterated in insertion order.
SourceOrder == <<"system_config", "user_config", "job_config">>

AnalysisObj(system_config, user_config, job_config) ==
    <<system_config, user_config, job_config>>

RECURSIVE get_value_from(_, _, _)
get_value_from(obj, key, i) ==
    IF i > Len(obj) THEN None
    ELSE IF key \in DOMAIN obj[i] THEN obj[i][key]
    ELSE get_value_from(obj, key, i + 1)

get_value(obj, key) == get_value_from(obj, key, 1)

EmptyConfig == [k \in {} |-> None]

\* Analysis.__init__ before the three files are read.
NoConfig == AnalysisObj(EmptyConfig, EmptyConfig, EmptyConfig)

(***************************************************************************)
(* load_data                                                               *)
(***************************************************************************)
\* A record of the fetched collection.
Record(n) == [name |-> n, url |-> "url"]

Records == {Record(n) : n \in Names}

\* A parsed JSON body: the empty document (falsy in Python), a non-empty
\* document without a "results" field, or a document with "results".
Json(shape, results) == [isNone |-> FALSE, shape |-> shape, results |-> results]

PyNone == [isNone |-> TRUE, shape |-> "none", results |-> <<>>]

JsonBodies ==
    {Json("empty", <<>>), Json("no_results", <<>>)}
        \cup {Json("results", r) : r \in SeqsUpTo(Records, MaxLen)}

\* What requests.get / raise_for_status / response.json() can do:
\*   request_exception - requests.get raises (transport error, invalid URL)
\*   http_error        - raise_for_status raises
\*   bad_body          - response.json() raises
\*   json              - all three succeed and the body parses to `body`
Response(kind, body) == [kind |-> kind, body |-> body]

NoResponse == Response("none", PyNone)

Responses ==
    {Response(k, PyNone) : k \in {"request_exception", "http_error", "bad_body"}}
        \cup {Response("json", b) : b \in JsonBodies}

\* load_data without its try/except: the exception leaves the function.
load_data_uncaught(resp) ==
    IF resp.kind = "json" THEN [raised |-> FALSE, value |-> resp.body]
    ELSE [raised |-> TRUE, value |-> PyNone]

\* load_data: every exception is caught, logged and turned into None.
load_data(resp) ==
    IF resp.kind = "json" THEN [raised |-> FALSE, value |-> resp.body]
    ELSE [raised |-> FALSE, value |-> PyNone]

\* Python truthiness of what load_data returned (`if data:`).
Truthy(d) == ~d.isNone /\ d.shape # "empty"

(***************************************************************************)
(* compute_analysis: the aggregation                                       *)
(***************************************************************************)
Range(s) == {s[i] : i \in 1..Len(s)}

\* pokemon_types = [entry["name"] for entry in data["results"]]
NamesOf(results) == [i \in 1..Len(results) |-> results[i].name]

\* list.count
Count(s, x) == Cardinality({i \in 1..Len(s) : s[i] = x})

\* The orders in which iterating set(pokemon_types) can yield its elements:
\* the order depends on the strings' hashes, which differ from run to run.
SetOrders(S) ==
    {o \in [1..Cardinality(S) -> S] : \A i, j \in 1..Cardinality(S) : o[i] = o[j] => i = j}

\* str.lower on the record names.
Lower(n) == IF n = "Fire" THEN "fire" ELSE n

\* The distribution with its keys lower-cased.
TypeDistributionLower(pokemon_types, order) ==
    [i \in 1..Len(order) |-> <<Lower(order[i]), Count(pokemon_types, order[i])>>]

\* {type_: pokemon_types.count(type_) for type_ in set(pokemon_types)}:
\* a dict, kept as its (key, value) items in insertion order.
TypeDistribution(pokemon_types, order) ==
    [i \in 1..Len(order) |-> <<order[i], Count(pokemon_types, order[i])>>]

\* The count taken over the distinct names: len(set(pokemon_types)).
TypeCountDistinct(pokemon_types) == Cardinality(Range(pokemon_types))

\* type_count = len(pokemon_types)
TypeCount(pokemon_types) == Len(pokemon_types)

\* sorted(items, key=lambda x: x[1], reverse=True): a stable sort, so items
\* with equal counts keep the order they have in `items`.
RECURSIVE InsertDesc(_, _)
InsertDesc(x, s) ==
    IF s = <<>> THEN <<x>>
    ELSE IF Head(s)[2] < x[2] THEN <<x>> \o s
    ELSE <<Head(s)>> \o InsertDesc(x, Tail(s))

RECURSIVE SortedDesc(_)
SortedDesc(items) ==
    IF items = <<>> THEN <<>>
    ELSE InsertDesc(items[Len(items)], SortedDesc(SubSeq(items, 1, Len(items) - 1)))

MostCommonTypes(distribution) == SortedDesc(distribution)

DictKeys(d) == [i \in 1..Len(d) |-> d[i][1]]

DictValues(d) == [i \in 1..Len(d) |-> d[i][2]]

(***************************************************************************)
(* notify_done                                                             *)
(***************************************************************************)
\* What requests.post can do: return a response (of any status) or raise.
PushOutcomes == {"2xx", "non_2xx", "network_error"}

\* notify_done: the status of the response is never looked at; only an
\* exception takes the except branch.
notify_done(outcome) ==
    IF outcome = "network_error"
    THEN [raised |-> FALSE, printed |-> "Error sending notification"]
    ELSE [raised |-> FALSE, printed |-> "Notification sent successfully!"]

(***************************************************************************)
(* plot_data                                                               *)
(***************************************************************************)
\* The matplotlib call that raises, if any.
BackendFailures == {"none", "figure", "bar", "labels", "savefig", "show"}

NoPlot == [called |-> FALSE, raised |-> FALSE, drawn |-> FALSE, saved |-> FALSE,
           error |-> FALSE, color |-> None]

\* plot_data without the assert, the bars drawn for whatever lists it got.
plot_data_unchecked(types, counts, plot_color, fails) ==
    LET drawn == fails \notin {"figure", "bar"}
        saved == drawn /\ fails \notin {"labels", "savefig"}
    IN  [called |-> TRUE, raised |-> FALSE, drawn |-> drawn, saved |-> saved,
         error |-> fails # "none", color |-> plot_color]

\* plot_data: the assert, then figure, bar, the labels and layout, savefig and
\* show, all inside one try whose except prints the error.
plot_data(types, counts, plot_color, fails) ==
    LET consistent == Len(types) = Len(counts)
        drawn == consistent /\ fails \notin {"figure", "bar"}
        saved == drawn /\ fails \notin {"labels", "savefig"}
    IN  [called |-> TRUE, raised |-> FALSE, drawn |-> drawn, saved |-> saved,
         error |-> ~consistent \/ fails # "none", color |-> plot_color]

(***************************************************************************)
(* The script: python Analysis.py                                          *)
(***************************************************************************)
\* The configurations the script is run with.
ScriptConfigs ==
    { AnalysisObj([k \in Keys |-> "a"], EmptyConfig, EmptyConfig),
      AnalysisObj(EmptyConfig, [k \in {"plot_color"} |-> "a"],
                  [k \in {"plot_color"} |-> "b"]),
      AnalysisObj([k \in {"base_url"} |-> "a"], [k \in {"base_url"} |-> "b"],
                  [k \in {"plot_color"} |-> "None"]) }

Init ==
    /\ analysis_obj = NoConfig
    /\ lookup_key = "base_url"
    /\ lookup_result = None
    /\ pc = "Init"
    /\ remote = "idle"
    /\ response = NoResponse
    /\ push = "none"
    /\ data = PyNone
    /\ type_count = 0
    /\ type_distribution = <<>>
    /\ most_common_types = <<>>
    /\ notify_log = "nothing"
    /\ plot_types = <<>>
    /\ plot_counts = <<>>
    /\ plot_result = NoPlot
    /\ stages = <<>>

\* Analysis.__init__ reads the three files; base_url and param_type are
\* looked up.
LoadConfig ==
    /\ pc = "Init"
    /\ \E obj \in ScriptConfigs :
          /\ analysis_obj' = obj
          /\ lookup_key' = "base_url"
          /\ lookup_result' = get_value(obj, "base_url")
    /\ pc' = "ConfigLoaded"
    /\ stages' = Append(stages, "ConfigLoaded")
    /\ UNCHANGED <<netVars, data, aggVars, notify_log, plotVars>>

\* A configuration file is missing or is not YAML: open / yaml.safe_load
\* raise, nothing catches it.
LoadConfigFails ==
    /\ pc = "Init"
    /\ pc' = "Crashed"
    /\ UNCHANGED <<cfgVars, netVars, data, aggVars, notify_log, plotVars, stages>>

\* load_data is entered and requests.get(url) is issued, with no timeout.
\* A URL built from an absent base_url is refused by requests at once.
LoadDataCall ==
    /\ pc = "ConfigLoaded"
    /\ pc' = "FetchPending"
    /\ remote' \in IF lookup_result = None THEN {"answers"} ELSE {"answers", "silent"}
    /\ UNCHANGED <<cfgVars, response, push, data, aggVars, notify_log, plotVars, stages>>

\* requests.get returns or raises; load_data returns.
LoadDataReturn ==
    /\ pc = "FetchPending"
    /\ remote = "answers"
    /\ \E resp \in Responses :
          /\ lookup_result = None => resp.kind = "request_exception"
          /\ response' = resp
          /\ LET r == load_data(resp)
             IN  IF r.raised
                 THEN /\ pc' = "Crashed"
                      /\ UNCHANGED <<data, stages>>
                 ELSE /\ pc' = "Fetched"
                      /\ data' = r.value
                      /\ stages' = Append(stages, "Fetched")
    /\ remote' = "idle"
    /\ UNCHANGED <<cfgVars, push, aggVars, notify_log, plotVars>>

\* What the script does with the value of load_data: `if data:`.
MainBranch(d) == IF Truthy(d) THEN "Analysing" ELSE "Failed"

Main ==
    /\ pc = "Fetched"
    /\ pc' = MainBranch(data)
    /\ UNCHANGED <<cfgVars, netVars, data, aggVars, notify_log, plotVars, stages>>

\* compute_analysis up to its print: data["results"] raises KeyError when
\* the document has no such field.
Aggregate ==
    /\ pc = "Analysing"
    /\ IF data.shape # "results"
       THEN /\ pc' = "Crashed"
            /\ UNCHANGED <<aggVars, stages>>
       ELSE LET pokemon_types == NamesOf(data.results)
            IN  \E order \in SetOrders(Range(pokemon_types)) :
                  /\ type_count' = TypeCount(pokemon_types)
                  /\ type_distribution' = TypeDistribution(pokemon_types, order)
                  /\ most_common_types' =
                        MostCommonTypes(TypeDistribution(pokemon_types, order))
                  /\ pc' = "Aggregated"
                  /\ stages' = Append(stages, "Aggregated")
    /\ UNCHANGED <<cfgVars, netVars, data, notify_log, plotVars>>

\* compute_analysis calls notify_done, which issues requests.post, with no
\* timeout.
NotifyCall ==
    /\ pc = "Aggregated"
    /\ pc' = "NotifyPending"
    /\ remote' \in {"answers", "silent"}
    /\ UNCHANGED <<cfgVars, response, push, data, aggVars, notify_log, plotVars, stages>>

\* requests.post returns or raises; notify_done returns.
NotifyReturn ==
    /\ pc = "NotifyPending"
    /\ remote = "answers"
    /\ \E outcome \in PushOutcomes :
          /\ push' = outcome
          /\ LET r == notify_done(outcome)
             IN  /\ notify_log' = r.printed
                 /\ IF r.raised
                    THEN /\ pc' = "Crashed"
                         /\ UNCHANGED stages
                    ELSE /\ pc' = "Notified"
                         /\ stages' = Append(stages, "Notified")
    /\ remote' = "idle"
    /\ UNCHANGED <<cfgVars, response, data, aggVars, plotVars>>

\* compute_analysis looks up plot_color and calls plot_data with the keys
\* and the values of type_distribution.
Plot ==
    /\ pc = "Notified"
    /\ \E fails \in BackendFailures :
          LET r == plot_data(DictKeys(type_distribution), DictValues(type_distribution),
                             get_value(analysis_obj, "plot_color"), fails)
          IN  /\ plot_result' = r
              /\ IF r.raised
                 THEN /\ pc' = "Crashed"
                      /\ UNCHANGED stages
                 ELSE /\ pc' = "Rendered"
                      /\ stages' = Append(stages, "Rendered")
    /\ plot_types' = DictKeys(type_distribution)
    /\ plot_counts' = DictValues(type_distribution)
    /\ lookup_key' = "plot_color"
    /\ lookup_result' = get_value(analysis_obj, "plot_color")
    /\ UNCHANGED <<analysis_obj, netVars, data, aggVars, notify_log>>

\* compute_analysis returns and the script ends.
Return ==
    /\ pc = "Rendered"
    /\ pc' = "Done"
    /\ UNCHANGED <<cfgVars, netVars, data, aggVars, notify_log, plotVars, stages>>

Next ==
    \/ LoadConfig
    \/ LoadConfigFails
    \/ LoadDataCall
    \/ LoadDataReturn
    \/ Main
    \/ Aggregate
    \/ NotifyCall
    \/ NotifyReturn
    \/ Plot
    \/ Return

Spec == Init /\ [][Next]_vars

\* The interpreter runs the script's next statement whenever it can.
FairSpec == Spec /\ WF_vars(Next)

(***************************************************************************)
(* get_value called on an Analysis object built from any three configs     *)
(***************************************************************************)
\* The keys looked up: the configured ones and one no source defines.
LookupKeys == Keys \cup {"topicname"}

InitConfig ==
    /\ analysis_obj \in {AnalysisObj(s, u, j) : s \in Configs, u \in Configs, j \in Configs}
    /\ lookup_key = "base_url"
    /\ lookup_result = None
    /\ pc = "Constructed"
    /\ remote = "idle"
    /\ response = NoResponse
    /\ push = "none"
    /\ data = PyNone
    /\ type_count = 0
    /\ type_distribution = <<>>
    /\ most_common_types = <<>>
    /\ notify_log = "nothing"
    /\ plot_types = <<>>
    /\ plot_counts = <<>>
    /\ plot_result = NoPlot
    /\ stages = <<>>

GetValueCall ==
    /\ pc \in {"Constructed", "Looked"}
    /\ \E key \in LookupKeys :
          /\ lookup_key' = key
          /\ lookup_result' = get_value(analysis_obj, key)
    /\ pc' = "Looked"
    /\ UNCHANGED <<analysis_obj, netVars, data, aggVars, notify_log, plotVars, stages>>

NextConfig == GetValueCall

SpecConfig == InitConfig /\ [][NextConfig]_vars

(***************************************************************************)
(* plot_data called directly                                               *)
(***************************************************************************)
CountValues == 1..2

InitPlot ==
    /\ analysis_obj \in ScriptConfigs
    /\ lookup_key = "base_url"
    /\ lookup_result = None
    /\ pc = "PlotCall"
    /\ remote = "idle"
    /\ response = NoResponse
    /\ push = "none"
    /\ data = PyNone
    /\ type_count = 0
    /\ type_distribution = <<>>
    /\ most_common_types = <<>>
    /\ notify_log = "nothing"
    /\ plot_types \in SeqsUpTo(Names, MaxLen)
    /\ plot_counts \in SeqsUpTo(CountValues, MaxLen)
    /\ plot_result = NoPlot
    /\ stages = <<>>

PlotDataCall ==
    /\ pc = "PlotCall"
    /\ \E fails \in BackendFailures :
          LET r == plot_data(plot_types, plot_counts,
                             get_value(analysis_obj, "plot_color"), fails)
          IN  /\ plot_result' = r
              /\ pc' = IF r.raised THEN "Crashed" ELSE "PlotReturned"
    /\ UNCHANGED <<cfgVars, netVars, data, aggVars, notify_log, plot_types,
                   plot_counts, stages>>

NextPlot == PlotDataCall

SpecPlot == InitPlot /\ [][NextPlot]_vars

(***************************************************************************)
(* Properties                                                              *)
(***************************************************************************)
Completed(stage) == \E i \in 1..Len(stages) : stages[i] = stage

RECURSIVE Sum(_)
Sum(s) == IF s = <<>> THEN 0 ELSE Head(s) + Sum(Tail(s))

InputNames == NamesOf(data.results)

FirstSeen(n) == CHOOSE i \in 1..Len(InputNames) :
                    InputNames[i] = n /\ \A j \in 1..(i - 1) : InputNames[j] # n

Defines(i, key) == key \in DOMAIN analysis_obj[i]

Sources == 1..Len(SourceOrder)

\* C1: after get_value(k) on a key that more than one source defines, the
\* result is the value of the latest source (in the order system, user, job)
\* that defines k.
LastSourceWins ==
    pc = "Looked" =>
        \A i \in Sources :
            ( /\ Defines(i, lookup_key)
              /\ \E j \in Sources : j # i /\ Defines(j, lookup_key)
              /\ \A j \in Sources : j > i => ~Defines(j, lookup_key) )
            => lookup_result = analysis_obj[i][lookup_key]

\* C2: once compute_analysis has aggregated a non-empty list of records, the
\* counts of type_distribution add up to type_count, and type_count is the
\* number of records in data["results"].
CountsSumToTotal ==
    (Completed("Aggregated") /\ Len(data.results) > 0) =>
        /\ Sum(DictValues(type_distribution)) = type_count
        /\ type_count = Len(data.results)

\* C2 witness: three records, two of them with the same name, aggregated.
CountsSumToTotalWitness ==
    /\ Completed("Aggregated")
    /\ Len(data.results) = 3
    /\ Len(type_distribution) = 2

\* C3: once compute_analysis has aggregated (an empty list included), the keys
\* of type_distribution are exactly the distinct names of the records, each
\* name once, "fire" and "Fire" being different names.
KeysAreDistinctNames ==
    Completed("Aggregated") =>
        /\ Range(DictKeys(type_distribution)) = Range(InputNames)
        /\ \A i, j \in 1..Len(type_distribution) :
              type_distribution[i][1] = type_distribution[j][1] => i = j

\* C3 witness: records named "fire", "Fire" and "fire" again, aggregated into
\* two keys.
KeysAreDistinctNamesWitness ==
    /\ Completed("Aggregated")
    /\ InputNames = <<"fire", "Fire", "fire">>
    /\ Range(DictKeys(type_distribution)) = {"fire", "Fire"}

\* C4: most_common_types is a permutation of the items of type_distribution
\* in descending order of count, and items with equal counts are in the order
\* in which their names first appear in the records.
RankingTiesByFirstSeen ==
    Completed("Aggregated") =>
        /\ Len(most_common_types) = Len(type_distribution)
        /\ Range(most_common_types) = Range(type_distribution)
        /\ \A i, j \in 1..Len(most_common_types) :
              i < j =>
                /\ most_common_types[i][2] >= most_common_types[j][2]
                /\ most_common_types[i][2] = most_common_types[j][2] =>
                      FirstSeen(most_common_types[i][1]) < FirstSeen(most_common_types[j][1])

FetchFailed == response.kind \in {"request_exception", "http_error", "bad_body"}

NotifyFailureReported ==
    push \in {"network_error", "non_2xx"} =>
        /\ notify_log = "Error sending notification"
        /\ pc # "Crashed"
        /\ type_distribution = TypeDistribution(InputNames, DictKeys(type_distribution))

\* C7: a run that reaches Done has completed the stages in the order
\* ConfigLoaded, Fetched, Aggregated, Rendered, Notified.
StagesInOrder ==
    pc = "Done" =>
        stages = <<"ConfigLoaded", "Fetched", "Aggregated", "Rendered", "Notified">>

\* C8: plot_data called with lists of different lengths reports an error and
\* returns: no bars are drawn, no file is saved, no exception leaves it.
MismatchRendersNothing ==
    (plot_result.called /\ Len(plot_types) # Len(plot_counts)) =>
        /\ plot_result.error
        /\ ~plot_result.drawn
        /\ ~plot_result.saved
        /\ ~plot_result.raised
        /\ pc = "PlotReturned"

\* C8 witness: plot_data has returned from a call with two labels and one
\* count.
MismatchRendersNothingWitness ==
    /\ pc = "PlotReturned"
    /\ Len(plot_types) = 2
    /\ Len(plot_counts) = 1
    /\ plot_result.error

\* C9: get_value(k) returns None (absent) exactly when no source defines k,
\* and otherwise a value that a source gives k.
AbsentOnlyWhenUndefined ==
    pc = "Looked" =>
        /\ (lookup_result = None) <=> (\A i \in Sources : ~Defines(i, lookup_key))
        /\ (\E i \in Sources : Defines(i, lookup_key)) =>
              \E i \in Sources : Defines(i, lookup_key)
                                   /\ lookup_result = analysis_obj[i][lookup_key]

\* C10: every run ends: the script reaches Done or Failed, or dies of an
\* uncaught exception; it does not wait for ever on the fetch or the push.
RunTerminates == <>(pc \in {"Done", "Failed", "Crashed"})

====
